---------------------------- MODULE Spec2Model ----------------------------
(* A model of the circuit-board router: the constrained A* pathfinder of    *)
(* a_star.py and the circuit_board class of circuit_board.py.               *)
(*                                                                          *)
(* Python values are represented as follows.                                *)
(*   - a coordinate (z, x, y) is the tuple <<z, x, y>>, 0-based as in the   *)
(*     source;                                                              *)
(*   - a string is the sequence of its characters, so '__' is <<"_","_">>;  *)
(*   - a gate number n (an int read from the sheet) is GateId(n) = <<n>>,   *)
(*     which, like a Python int, is comparable with and different from      *)
(*     every coordinate tuple;                                              *)
(*   - a list is a sequence; list positions are 1-based here, while the     *)
(*     connection indexes stored in ordering and completed_wires stay       *)
(*     0-based as in the source;                                            *)
(*   - a dict is a function on its key set; f_score, whose iteration order  *)
(*     decides min(), is a sequence of <<key, value>> pairs in insertion    *)
(*     order.                                                               *)
EXTENDS Integers, Sequences, FiniteSets, TLC

VARIABLES
    \* the circuit_board object
    dimensions, gates, connections, board, needs_connections, neighbor_of,
    free_connectors,
    \* complete_board: its position, its locals, and whether best_solution
    \* is the array object self.board (line 157 binds the name, it copies
    \* nothing)
    pc, ordering, pos, iter, best_solution, best_kind, best_shared,
    best_score, completed_previously, completed_wires,
    \* history kept for the properties: the path painted for each routed
    \* net, the grid at the end of the pass that last raised best_score, the
    \* largest routed count at the end of a pass, the connections line 146
    \* called connect_gates for in the current pass, and the routed count at
    \* the end of the previous pass (-1 before the second pass)
    h_paths, h_snapshot, h_max_count, h_attempted, h_prev_pass,
    \* one call of a_star.search
    start, goal, open_set, closed_set, came_from, g_score, f_score,
    s_pc, s_result,
    \* one call of connect_gates: its argument and the path it returns
    pair, best, c_pc

boardVars == <<dimensions, gates, connections, board, needs_connections,
               neighbor_of, free_connectors>>
optVars == <<pc, ordering, pos, iter, best_solution, best_kind, best_shared,
             best_score, completed_previously, completed_wires>>
histVars == <<h_paths, h_snapshot, h_max_count, h_attempted, h_prev_pass>>
searchVars == <<start, goal, open_set, closed_set, came_from, g_score,
                f_score, s_pc, s_result>>
pairVars == <<pair, best, c_pc>>
vars == <<boardVars, optVars, histVars, searchVars, pairVars>>

-----------------------------------------------------------------------------
(* Bounds of the model.                                                     *)

\* most gates placed on a board of the pathfinder specification
MaxGates == 3

\* grids of the pathfinder specification, (layers, width, height)
SearchDimensions == {<<2, 2, 2>>, <<1, 3, 3>>, <<1, 1, 5>>}

-----------------------------------------------------------------------------
(* Values.                                                                  *)

EmptyLabel == <<"_", "_">>
GateLabel == <<"G", "A">>

GateId(n) == <<n>>

\* g_score.get(neighbor, 1000)
GScoreDefault == 1000

Cells(dim) == {<<z, x, y>> : z \in 0..(dim[1] - 1), x \in 0..(dim[2] - 1),
                             y \in 0..(dim[3] - 1)}

EmptyDict == <<>>
DictGet(d, k, default) == IF k \in DOMAIN d THEN d[k] ELSE default
DictSet(d, k, v) == [x \in (DOMAIN d) \cup {k} |-> IF x = k THEN v ELSE d[x]]

\* numpy stores into an array of dtype '<U2': a longer string is cut to two
\* characters
U2(s) == IF Len(s) > 2 THEN SubSeq(s, 1, 2) ELSE s

\* np.full(self.dimensions, '__')
np_full(dim, val) == [c \in Cells(dim) |-> U2(val)]

\* self.board[loc[0]][loc[1]][loc[2]] = val
set_node(b, loc, val) == [b EXCEPT ![loc] = U2(val)]

\* list.remove(x): drops the first occurrence of x
RECURSIVE ListRemove(_, _)
ListRemove(lst, x) ==
    IF lst = <<>> THEN <<>>
    ELSE IF Head(lst) = x THEN Tail(lst)
    ELSE <<Head(lst)>> \o ListRemove(Tail(lst), x)

Abs(n) == IF n < 0 THEN -n ELSE n

-----------------------------------------------------------------------------
(* a_star.py                                                                *)

manhattan(s, e) == Abs(e[1] - s[1]) + Abs(e[2] - s[2]) + Abs(e[3] - s[3])

\* c_board as the functions of a_star.py read it
CBoard(dim, b, needs, nbof) ==
    [dimensions |-> dim, board |-> b, needs_connections |-> needs,
     neighbor_of |-> nbof]

check_free_connector(cb, connector_node) ==
    \E k \in 1..Len(cb.neighbor_of[connector_node]) :
        cb.needs_connections[cb.neighbor_of[connector_node][k]] = 0

\* mutant: the tests towards y + 1 and y - 1 do not look at the cell
VacantNeighbors_Unchecked(cb, node) ==
    LET b == cb.board
        bz == cb.dimensions[1]
        bx == cb.dimensions[2]
        by == cb.dimensions[3]
        nz == node[1]
        nx == node[2]
        ny == node[3]
        Take(cond, c) == IF cond THEN <<c>> ELSE <<>>
    IN  Take(nz < bz - 1 /\ b[<<nz + 1, nx, ny>>] = EmptyLabel, <<nz + 1, nx, ny>>)
        \o Take(nz > 0 /\ nz < bz /\ b[<<nz - 1, nx, ny>>] = EmptyLabel, <<nz - 1, nx, ny>>)
        \o Take(nx < bx - 1 /\ b[<<nz, nx + 1, ny>>] = EmptyLabel, <<nz, nx + 1, ny>>)
        \o Take(nx > 0 /\ nx < bx /\ b[<<nz, nx - 1, ny>>] = EmptyLabel, <<nz, nx - 1, ny>>)
        \o Take(ny < by - 1, <<nz, nx, ny + 1>>)
        \o Take(ny > 0 /\ ny < by, <<nz, nx, ny - 1>>)

\* mutant: "node[1] > 1" at line 98, the cell at x - 1 = 0 is never taken
VacantNeighbors_LowerBound(cb, node) ==
    LET b == cb.board
        bz == cb.dimensions[1]
        bx == cb.dimensions[2]
        by == cb.dimensions[3]
        nz == node[1]
        nx == node[2]
        ny == node[3]
        Take(cond, c) == IF cond THEN <<c>> ELSE <<>>
    IN  Take(nz < bz - 1 /\ b[<<nz + 1, nx, ny>>] = EmptyLabel, <<nz + 1, nx, ny>>)
        \o Take(nz > 0 /\ nz < bz /\ b[<<nz - 1, nx, ny>>] = EmptyLabel, <<nz - 1, nx, ny>>)
        \o Take(nx < bx - 1 /\ b[<<nz, nx + 1, ny>>] = EmptyLabel, <<nz, nx + 1, ny>>)
        \o Take(nx > 1 /\ nx < bx /\ b[<<nz, nx - 1, ny>>] = EmptyLabel, <<nz, nx - 1, ny>>)
        \o Take(ny < by - 1 /\ b[<<nz, nx, ny + 1>>] = EmptyLabel, <<nz, nx, ny + 1>>)
        \o Take(ny > 0 /\ ny < by /\ b[<<nz, nx, ny - 1>>] = EmptyLabel, <<nz, nx, ny - 1>>)

\* the six tests of node_neighbors, in the order of the source
VacantNeighbors(cb, node) ==
    LET b == cb.board
        bz == cb.dimensions[1]
        bx == cb.dimensions[2]
        by == cb.dimensions[3]
        nz == node[1]
        nx == node[2]
        ny == node[3]
        Take(cond, c) == IF cond THEN <<c>> ELSE <<>>
    IN  Take(nz < bz - 1 /\ b[<<nz + 1, nx, ny>>] = EmptyLabel, <<nz + 1, nx, ny>>)
        \o Take(nz > 0 /\ nz < bz /\ b[<<nz - 1, nx, ny>>] = EmptyLabel, <<nz - 1, nx, ny>>)
        \o Take(nx < bx - 1 /\ b[<<nz, nx + 1, ny>>] = EmptyLabel, <<nz, nx + 1, ny>>)
        \o Take(nx > 0 /\ nx < bx /\ b[<<nz, nx - 1, ny>>] = EmptyLabel, <<nz, nx - 1, ny>>)
        \o Take(ny < by - 1 /\ b[<<nz, nx, ny + 1>>] = EmptyLabel, <<nz, nx, ny + 1>>)
        \o Take(ny > 0 /\ ny < by /\ b[<<nz, nx, ny - 1>>] = EmptyLabel, <<nz, nx, ny - 1>>)

\* "for node in neighbors: ... neighbors.remove(node)": the list is walked by
\* position while it shrinks, so the element after a removed one is skipped.
\* The test "node in c_board.needs_connections" looks a coordinate up among
\* the keys of needs_connections, which are gate numbers.
RECURSIVE RemoveConnectors(_, _, _)
RemoveConnectors(cb, neighbors, i) ==
    IF i > Len(neighbors) THEN neighbors
    ELSE IF /\ neighbors[i] \in DOMAIN cb.needs_connections
            /\ ~check_free_connector(cb, neighbors[i])
         THEN RemoveConnectors(cb, ListRemove(neighbors, neighbors[i]), i + 1)
         ELSE RemoveConnectors(cb, neighbors, i + 1)

node_neighbors(cb, node) == RemoveConnectors(cb, VacantNeighbors(cb, node), 1)

\* came_from is walked back from the goal
RECURSIVE reconstruct_path(_, _)

\* mutant: the walk stops one step early and leaves the start out
reconstruct_path_NoStart(cf, current) ==
    IF current \in DOMAIN cf /\ cf[current] \in DOMAIN cf
    THEN <<current>> \o reconstruct_path(cf, cf[current])
    ELSE <<current>>

reconstruct_path(cf, current) ==
    IF current \in DOMAIN cf
    THEN <<current>> \o reconstruct_path(cf, cf[current])
    ELSE <<current>>

\* results of search: a path, False, or the ValueError of min() on an empty dict
PathResult(p) == [kind |-> "path", path |-> p]
False == [kind |-> "False", path |-> <<>>]
ValueError == [kind |-> "ValueError", path |-> <<>>]

\* lines 22-27
SearchInit(s, g) ==
    [open_set |-> {s}, closed_set |-> {}, came_from |-> EmptyDict,
     g_score |-> DictSet(EmptyDict, s, 0),
     f_score |-> <<<<s, manhattan(s, g)>>>>]

\* f_score[k] = v on an insertion-ordered dict
FScoreSet(fs, k, v) ==
    IF \E i \in 1..Len(fs) : fs[i][1] = k
    THEN [i \in 1..Len(fs) |-> IF fs[i][1] = k THEN <<k, v>> ELSE fs[i]]
    ELSE Append(fs, <<k, v>>)

\* lines 30-33: the entries of f_score whose key is in the open set
OpenFScores(st) ==
    LET InOpen(p) == p[1] \in st.open_set IN SelectSeq(st.f_score, InOpen)

\* the members of the open set with the least f-score
MinFScore(st) ==
    LET fs == OpenFScores(st)
    IN  {fs[i][1] : i \in {j \in 1..Len(fs) :
                              \A k \in 1..Len(fs) : fs[j][2] <= fs[k][2]}}

\* mutant: min(fscores) without the key, the least coordinate is taken
PickCurrent_ByKey(st) ==
    LET fs == OpenFScores(st)
        keys == {fs[i][1] : i \in 1..Len(fs)}
    IN  CHOOSE c \in keys : \A d \in keys :
            \/ c[1] < d[1]
            \/ c[1] = d[1] /\ c[2] < d[2]
            \/ c[1] = d[1] /\ c[2] = d[2] /\ c[3] <= d[3]

\* line 34: min(fscores, key=fscores.get) returns the first least entry
PickCurrent(st) ==
    LET fs == OpenFScores(st)
        least == {j \in 1..Len(fs) : \A k \in 1..Len(fs) : fs[j][2] <= fs[k][2]}
        first == CHOOSE j \in least : \A k \in least : j <= k
    IN  fs[first][1]

\* lines 42-54, for one neighbor
Relax(st, current, neighbor, g) ==
    IF neighbor \in st.closed_set THEN st
    ELSE LET opened == [st EXCEPT !.open_set = @ \cup {neighbor}]
             tent_gscore == st.g_score[current] + manhattan(current, neighbor)
         IN  IF tent_gscore >= DictGet(st.g_score, neighbor, GScoreDefault)
             THEN opened
             ELSE [opened EXCEPT
                     !.came_from = DictSet(@, neighbor, current),
                     !.g_score = DictSet(@, neighbor, tent_gscore),
                     !.f_score = FScoreSet(@, neighbor,
                                           tent_gscore + manhattan(neighbor, g))]

RECURSIVE RelaxAll(_, _, _, _, _)
RelaxAll(st, current, nbrs, i, g) ==
    IF i > Len(nbrs) THEN st
    ELSE RelaxAll(Relax(st, current, nbrs[i], g), current, nbrs, i + 1, g)

\* mutant: the loop of line 41 misses the last neighbor
Expand_NoLast(cb, st, current, g) ==
    LET nbrs == node_neighbors(cb, current)
    IN  RelaxAll([st EXCEPT !.open_set = @ \ {current},
                            !.closed_set = @ \cup {current}],
                 current, SubSeq(nbrs, 1, Len(nbrs) - 1), 1, g)

\* lines 38-54: one pass of the while loop for a current that is not the goal
Expand(cb, st, current, g) ==
    RelaxAll([st EXCEPT !.open_set = @ \ {current},
                        !.closed_set = @ \cup {current}],
             current, node_neighbors(cb, current), 1, g)

RECURSIVE SearchLoop(_, _, _)
SearchLoop(cb, st, g) ==
    IF st.open_set = {} THEN False
    ELSE IF OpenFScores(st) = <<>> THEN ValueError
    ELSE LET current == PickCurrent(st)
         IN  IF current = g
             THEN PathResult(reconstruct_path(st.came_from, current))
             ELSE SearchLoop(cb, Expand(cb, st, current, g), g)

search(s, g, cb) == SearchLoop(cb, SearchInit(s, g), g)

-----------------------------------------------------------------------------
(* circuit_board.py: construction                                           *)

\* gate_connectors
RECURSIVE gate_connectors(_)
gate_connectors(conns) ==
    IF conns = <<>> THEN EmptyDict
    ELSE LET rest == gate_connectors(SubSeq(conns, 1, Len(conns) - 1))
             n1 == conns[Len(conns)][1]
             n2 == conns[Len(conns)][2]
             c1 == DictSet(rest, n1, DictGet(rest, n1, 0) + 1)
         IN  DictSet(c1, n2, DictGet(c1, n2, 0) + 1)

\* lines 51-52
RECURSIVE PlaceGates(_, _, _)
PlaceGates(b, gs, n) ==
    IF n > Cardinality(DOMAIN gs) THEN b
    ELSE PlaceGates(set_node(b, gs[GateId(n)], GateLabel), gs, n + 1)

\* lines 61-64
\* mutant: line 62 assigns [gate] as line 64 does, the cell keeps only the
\* last gate beside it
RECURSIVE RecordNeighbors_Overwrite(_, _, _, _)
RecordNeighbors_Overwrite(nbof, nbrs, i, gate) ==
    IF i > Len(nbrs) THEN nbof
    ELSE RecordNeighbors_Overwrite(DictSet(nbof, nbrs[i], <<gate>>),
                                   nbrs, i + 1, gate)

RECURSIVE RecordNeighbors(_, _, _, _)
RecordNeighbors(nbof, nbrs, i, gate) ==
    IF i > Len(nbrs) THEN nbof
    ELSE RecordNeighbors(
             IF nbrs[i] \in DOMAIN nbof
             THEN [nbof EXCEPT ![nbrs[i]] = Append(@, gate)]
             ELSE DictSet(nbof, nbrs[i], <<gate>>),
             nbrs, i + 1, gate)

\* lines 58-64: node_neighbors sees the mapping built so far
RECURSIVE BuildNeighborOf(_, _, _, _, _, _)
BuildNeighborOf(dim, b, needs, gs, n, nbof) ==
    IF n > Cardinality(DOMAIN gs) THEN nbof
    ELSE BuildNeighborOf(dim, b, needs, gs, n + 1,
             RecordNeighbors(nbof,
                 node_neighbors(CBoard(dim, b, needs, nbof), gs[GateId(n)]),
                 1, GateId(n)))

SeqRange(s) == {s[i] : i \in 1..Len(s)}

\* reset_board
reset_board(dim, gs, conns) ==
    LET b == PlaceGates(np_full(dim, EmptyLabel), gs, 1)
        needs == gate_connectors(conns)
        nbof == BuildNeighborOf(dim, b, needs, gs, 1, EmptyDict)
        free == UNION {SeqRange(node_neighbors(CBoard(dim, b, needs, nbof),
                                               gs[k])) : k \in DOMAIN gs}
    IN  [board |-> b, needs_connections |-> needs, neighbor_of |-> nbof,
         free_connectors |-> free]

-----------------------------------------------------------------------------
(* circuit_board.py: routing                                                *)

\* max_iters = 1000
max_iters == 1000

\* v_opt = 2
v_opt == 2

Digits == <<"0", "1", "2", "3", "4", "5", "6", "7", "8", "9">>

RECURSIVE Decimal(_)
Decimal(n) ==
    IF n < 10 THEN <<Digits[n + 1]>>
    ELSE Decimal(n \div 10) \o <<Digits[(n % 10) + 1]>>

\* "%02d" % x
Format02d(x) == IF x < 10 THEN <<"0">> \o Decimal(x) ELSE Decimal(x)

\* mutant: range(len(self.connections)), the names start at "00"
wire_names_FromZero(i) == Format02d(i)

\* line 138; i is the 0-based connection index
wire_names(i) == Format02d(i + 1)

\* mutant: only the first gate's counter goes up
delete_connection_OneCounter(b, needs, conns, i, name) ==
    [needs_connections |-> [needs EXCEPT ![conns[i + 1][1]] = @ + 1],
     board |-> [c \in DOMAIN b |-> IF b[c] = name THEN EmptyLabel ELSE b[c]]]

\* delete_connection: two counters go up, and np.where builds a new array
delete_connection(b, needs, conns, i, name) ==
    LET n1 == conns[i + 1][1]
        n2 == conns[i + 1][2]
        up1 == [needs EXCEPT ![n1] = @ + 1]
    IN  [needs_connections |-> [up1 EXCEPT ![n2] = @ + 1],
         board |-> [c \in DOMAIN b |-> IF b[c] = name THEN EmptyLabel ELSE b[c]]]

\* mutant: "<=" at line 117, the last of the shortest paths is kept
KeepBest_LastOnTie(best_path, path) ==
    IF path # False /\ best_path = <<>> THEN path.path
    ELSE IF path # False /\ Len(path.path) <= Len(best_path) THEN path.path
    ELSE best_path

\* lines 114-118, for one combination
KeepBest(best_path, path) ==
    IF path # False /\ best_path = <<>> THEN path.path
    ELSE IF path # False /\ Len(path.path) < Len(best_path) THEN path.path
    ELSE best_path

\* lines 111-118: start neighbors outside, end neighbors inside
RECURSIVE TryCombinations(_, _, _, _, _, _)
TryCombinations(cb, n1, n2, i, j, best_path) ==
    IF i > Len(n1) THEN best_path
    ELSE IF j > Len(n2) THEN TryCombinations(cb, n1, n2, i + 1, 1, best_path)
    ELSE TryCombinations(cb, n1, n2, i, j + 1,
                         KeepBest(best_path, search(n1[i], n2[j], cb)))

\* connect_gates; a search is taken to return a path or False (min() cannot
\* raise before a g-score reaches GScoreDefault)
connect_gates(cb, gs, gate_pair) ==
    TryCombinations(cb, node_neighbors(cb, gs[gate_pair[1]]),
                    node_neighbors(cb, gs[gate_pair[2]]), 1, 1, <<>>)

\* line 125
Distances(cb, gs, conns) ==
    [k \in 1..Len(conns) |-> Len(connect_gates(cb, gs, conns[k]))]

\* lines 126-127: sorted() is stable, equal distances keep the index order
RECURSIVE SortedIndexes(_, _)
SortedIndexes(dist, left) ==
    IF left = {} THEN <<>>
    ELSE LET first == CHOOSE i \in left : \A j \in left :
                        \/ dist[i + 1] < dist[j + 1]
                        \/ dist[i + 1] = dist[j + 1] /\ i <= j
         IN  <<first>> \o SortedIndexes(dist, left \ {first})

InitialOrdering(cb, gs, conns) ==
    SortedIndexes(Distances(cb, gs, conns), 0..(Len(conns) - 1))

\* lines 152-153
RECURSIVE Paint(_, _, _, _)
Paint(b, path, k, name) ==
    IF k > Len(path) THEN b
    ELSE Paint(set_node(b, path[k], name), path, k + 1, name)

\* mutant: lines 149-150 sit outside the "if len(path) > 0", the counters go
\* down for a connection that was not routed too
RouteConnection_AlwaysDecrement(cb, gs, conns, done, i) ==
    IF i \in SeqRange(done)
    THEN [attempted |-> FALSE, routed |-> FALSE, path |-> <<>>,
          board |-> cb.board, needs_connections |-> cb.needs_connections,
          completed_wires |-> done]
    ELSE LET path == connect_gates(cb, gs, conns[i + 1])
             n1 == conns[i + 1][1]
             n2 == conns[i + 1][2]
             down1 == [cb.needs_connections EXCEPT ![n1] = @ - 1]
         IN  [attempted |-> TRUE,
              routed |-> Len(path) > 0,
              path |-> path,
              board |-> Paint(cb.board, path, 1, wire_names(i)),
              needs_connections |-> [down1 EXCEPT ![n2] = @ - 1],
              completed_wires |->
                  IF Len(path) > 0 THEN Append(done, i) ELSE done]

\* mutant: lines 144-145 are missing, a routed connection is routed again
RouteConnection_NoSkip(cb, gs, conns, done, i) ==
    LET path == connect_gates(cb, gs, conns[i + 1])
        n1 == conns[i + 1][1]
        n2 == conns[i + 1][2]
        down1 == [cb.needs_connections EXCEPT ![n1] = @ - 1]
    IN  [attempted |-> TRUE,
         routed |-> Len(path) > 0,
         path |-> path,
         board |-> Paint(cb.board, path, 1, wire_names(i)),
         needs_connections |->
             IF Len(path) > 0 THEN [down1 EXCEPT ![n2] = @ - 1]
             ELSE cb.needs_connections,
         completed_wires |->
             IF Len(path) > 0 THEN Append(done, i) ELSE done]

\* lines 144-153 for the connection i of the ordering
RouteConnection(cb, gs, conns, done, i) ==
    IF i \in SeqRange(done)
    THEN [attempted |-> FALSE, routed |-> FALSE, path |-> <<>>,
          board |-> cb.board, needs_connections |-> cb.needs_connections,
          completed_wires |-> done]
    ELSE LET path == connect_gates(cb, gs, conns[i + 1])
             n1 == conns[i + 1][1]
             n2 == conns[i + 1][2]
             down1 == [cb.needs_connections EXCEPT ![n1] = @ - 1]
         IN  [attempted |-> TRUE,
              routed |-> Len(path) > 0,
              path |-> path,
              board |-> Paint(cb.board, path, 1, wire_names(i)),
              needs_connections |->
                  IF Len(path) > 0 THEN [down1 EXCEPT ![n2] = @ - 1]
                  ELSE cb.needs_connections,
              completed_wires |->
                  IF Len(path) > 0 THEN Append(done, i) ELSE done]

\* mutant: random.choices, the same position may be drawn twice
Samples_WithReplacement(population, k) ==
    {[n \in 1..k |-> population[f[n]]] : f \in [1..k -> 1..Len(population)]}

\* random.sample(population, k): k members at distinct positions, in any order
Samples(population, k) ==
    {[n \in 1..k |-> population[f[n]]] :
        f \in {g \in [1..k -> 1..Len(population)] :
                  \A a, b \in 1..k : a # b => g[a] # g[b]}}

\* mutant: the cells are cleared in the array itself, which best_solution
\* still names
Rebound_InPlace(shared, kept, new_board) ==
    [best_solution |-> IF shared THEN new_board ELSE kept,
     best_shared |-> shared]

\* line 82 binds self.board to the array np.where returns: best_solution
\* keeps the array it named and no longer shares it with self.board
Rebound(shared, kept, new_board) ==
    [best_solution |-> kept, best_shared |-> FALSE]

\* lines 168-170
RECURSIVE DeleteAll(_, _, _, _, _, _)
DeleteAll(b, needs, conns, done, to_delete, k) ==
    IF k > Len(to_delete)
    THEN [board |-> b, needs_connections |-> needs, completed_wires |-> done]
    ELSE LET d == delete_connection(b, needs, conns, to_delete[k],
                                    wire_names(to_delete[k]))
         IN  DeleteAll(d.board, d.needs_connections, conns,
                       ListRemove(done, to_delete[k]), to_delete, k + 1)

-----------------------------------------------------------------------------
(* The pathfinder specification: one call of search on a constructed board. *)

\* a gate placement: MaxGates or fewer gates on distinct cells, numbered in
\* the order of the cells
RECURSIVE SetToSeq(_)
SetToSeq(S) ==
    IF S = {} THEN <<>>
    ELSE LET least == CHOOSE c \in S : \A d \in S :
                        \/ c[1] < d[1]
                        \/ c[1] = d[1] /\ c[2] < d[2]
                        \/ c[1] = d[1] /\ c[2] = d[2] /\ c[3] <= d[3]
         IN  <<least>> \o SetToSeq(S \ {least})

GatesAt(S) ==
    LET locs == SetToSeq(S)
    IN  [k \in {GateId(n) : n \in 1..Len(locs)} |-> locs[k[1]]]

\* a net list joining each gate to the next
ChainConnections(k) == [n \in 1..(k - 1) |-> <<GateId(n), GateId(n + 1)>>]

CB == CBoard(dimensions, board, needs_connections, neighbor_of)

\* connect_gates is not being followed
PairIdle ==
    /\ pair = <<>>
    /\ best = <<>>
    /\ c_pc = "idle"

\* complete_board has not been called
OptimizerIdle ==
    /\ pc = "constructed"
    /\ ordering = <<>>
    /\ pos = 0
    /\ iter = 0
    /\ best_solution = <<>>
    /\ best_kind = "none"
    /\ best_shared = FALSE
    /\ best_score = 0
    /\ completed_previously = 0
    /\ completed_wires = <<>>
    /\ h_paths = EmptyDict
    /\ h_snapshot = <<>>
    /\ h_max_count = 0
    /\ h_attempted = <<>>
    /\ h_prev_pass = -1

SearchState ==
    [open_set |-> open_set, closed_set |-> closed_set, came_from |-> came_from,
     g_score |-> g_score, f_score |-> f_score]

SetSearchState(st) ==
    /\ open_set' = st.open_set
    /\ closed_set' = st.closed_set
    /\ came_from' = st.came_from
    /\ g_score' = st.g_score
    /\ f_score' = st.f_score

InitSearch ==
    \E dim \in SearchDimensions :
      \E S \in SUBSET Cells(dim) :
        /\ Cardinality(S) <= MaxGates
        /\ LET gs == GatesAt(S)
               conns == ChainConnections(Cardinality(S))
               rb == reset_board(dim, gs, conns)
           IN  /\ dimensions = dim
               /\ gates = gs
               /\ connections = conns
               /\ board = rb.board
               /\ needs_connections = rb.needs_connections
               /\ neighbor_of = rb.neighbor_of
               /\ free_connectors = rb.free_connectors
               /\ \E s \in Cells(dim) \ S, g \in Cells(dim) \ S :
                       /\ start = s
                       /\ goal = g
                       /\ open_set = SearchInit(s, g).open_set
                       /\ closed_set = SearchInit(s, g).closed_set
                       /\ came_from = SearchInit(s, g).came_from
                       /\ g_score = SearchInit(s, g).g_score
                       /\ f_score = SearchInit(s, g).f_score
        /\ s_pc = "while"
        /\ s_result = False
        /\ OptimizerIdle
        /\ PairIdle

\* the loop ends without a path: line 29 fails and search returns False, or
\* min() at line 34 finds no open member with an f-score and raises
SearchFail ==
    /\ s_pc = "while"
    /\ (open_set = {} \/ OpenFScores(SearchState) = <<>>)
    /\ s_result' = IF open_set = {} THEN False ELSE ValueError
    /\ s_pc' = "returned"
    /\ UNCHANGED <<boardVars, optVars, histVars, pairVars, start, goal,
                   open_set, closed_set, came_from, g_score, f_score>>

\* lines 34-36: the selected member is the goal.  Any least member may be the
\* one min() returns, depending on the order of the dict.
SearchReturn ==
    /\ s_pc = "while"
    /\ open_set # {}
    /\ \E current \in MinFScore(SearchState) :
        /\ current = goal
        /\ s_result' = PathResult(reconstruct_path(came_from, current))
    /\ s_pc' = "returned"
    /\ UNCHANGED <<boardVars, optVars, histVars, pairVars, start, goal,
                   open_set, closed_set, came_from, g_score, f_score>>

\* lines 34-54: the selected member is expanded
SearchExpand ==
    /\ s_pc = "while"
    /\ open_set # {}
    /\ \E current \in MinFScore(SearchState) :
        /\ current # goal
        /\ SetSearchState(Expand(CB, SearchState, current, goal))
    /\ UNCHANGED <<boardVars, optVars, histVars, pairVars, start, goal, s_pc,
                   s_result>>

NextSearch == SearchFail \/ SearchReturn \/ SearchExpand

SpecSearch == InitSearch /\ [][NextSearch]_vars

-----------------------------------------------------------------------------
(* Properties of the pathfinder.                                            *)

\* the cells a walk may enter: breadth-first layers over node_neighbors
RECURSIVE WalkLayers(_, _, _, _, _)
WalkLayers(cb, frontier, seen, g, d) ==
    IF g \in frontier THEN d
    ELSE IF frontier = {} THEN -1
    ELSE LET nxt == UNION {SeqRange(node_neighbors(cb, c)) : c \in frontier}
                    \ seen
         IN  WalkLayers(cb, nxt, seen \cup nxt, g, d + 1)

\* length of a shortest walk from s to g, -1 when there is none
ShortestWalk(cb, s, g) == WalkLayers(cb, {s}, {s}, g, 0)

Distance3D(a, b) ==
    LET D(i) == IF a[i] < b[i] THEN b[i] - a[i] ELSE a[i] - b[i]
    IN  D(1) + D(2) + D(3)

\* a and b lie on one axis-parallel line and every cell from a to b is Empty
StraightLineFree(b, a, c) ==
    /\ Cardinality({i \in 1..3 : a[i] # c[i]}) <= 1
    /\ \A m \in DOMAIN b :
          (Distance3D(a, m) + Distance3D(m, c) = Distance3D(a, c))
              => b[m] = EmptyLabel

Steps(p) == Len(p) - 1

PathIsShortest(r) ==
    r.kind = "path" =>
        /\ Steps(r.path) = ShortestWalk(CB, start, goal)
        /\ StraightLineFree(board, start, goal)
              => Steps(r.path) = Distance3D(start, goal)

\* C1: a path returned by search, whichever least member of the open set is
\* taken on ties, has as many steps as a shortest walk from start to goal
\* through the cells node_neighbors reports, and as many as the Manhattan
\* distance when the straight line between them is free.
C1_ShortestPath ==
    /\ s_pc = "returned" => PathIsShortest(s_result)
    /\ s_pc = "returned" => PathIsShortest(search(start, goal, CB))

C1_Witness ==
    /\ s_pc = "returned"
    /\ s_result.kind = "path"
    /\ Steps(s_result.path) > Distance3D(start, goal)
    /\ Cardinality(MinFScore(SearchState)) > 1

NoPathIffUnreachable(r) ==
    /\ r.kind \in {"path", "False"}
    /\ r = False <=> ShortestWalk(CB, start, goal) = -1
    /\ r.kind = "path" => r.path # <<>> /\ r.path[1] = goal

Contiguous(p) ==
    \A i \in 1..(Len(p) - 1) :
        /\ Cardinality({k \in 1..3 : p[i][k] # p[i + 1][k]}) = 1
        /\ Distance3D(p[i], p[i + 1]) = 1

NoRepeat(p) == \A i, j \in 1..Len(p) : i # j => p[i] # p[j]

WellFormedPath(r) ==
    r.kind = "path" =>
        /\ r.path # <<>>
        /\ r.path[1] = goal
        /\ r.path[Len(r.path)] = start
        /\ Contiguous(r.path)
        /\ NoRepeat(r.path)

\* C3: a path returned by search begins with the goal and ends with the
\* start, every two consecutive coordinates differ by one unit on exactly one
\* axis, and no coordinate occurs twice.
C3_PathWellFormed ==
    /\ s_pc = "returned" => WellFormedPath(s_result)
    /\ s_pc = "returned" => WellFormedPath(search(start, goal, CB))

C3_Witness ==
    /\ s_pc = "returned"
    /\ s_result.kind = "path"
    /\ Len(s_result.path) >= 4

-----------------------------------------------------------------------------
(* The router specification: a board is constructed and complete_board runs *)
(* on it.                                                                   *)

\* a board as the caller gives it: dimensions, the cells of gates 1, 2, ...
\* and the net list as pairs of gate numbers
Board(dim, locs, nets) ==
    [dimensions |-> dim,
     gates |-> [k \in {GateId(n) : n \in 1..Len(locs)} |-> locs[k[1]]],
     connections |-> [n \in 1..Len(nets) |->
                         <<GateId(nets[n][1]), GateId(nets[n][2])>>]]

\* one net between opposite corners of a 2 x 2 layer
BoardCorners == Board(<<1, 2, 2>>, <<<<0, 0, 0>>, <<0, 1, 1>>>>, <<<<1, 2>>>>)

\* three gates in a row: the net between the outer two can never be routed
BoardRow ==
    Board(<<1, 1, 5>>, <<<<0, 0, 0>>, <<0, 0, 2>>, <<0, 0, 4>>>>,
          <<<<1, 2>>, <<2, 3>>, <<1, 3>>>>)

\* two of three nets fit, or only one, depending on the order
BoardOrder ==
    Board(<<1, 2, 3>>, <<<<0, 0, 0>>, <<0, 1, 2>>, <<0, 0, 2>>>>,
          <<<<1, 3>>, <<2, 3>>, <<1, 2>>>>)

\* the first ordering routes two of three nets, another routes all three
BoardImprove ==
    Board(<<1, 2, 4>>, <<<<0, 1, 1>>, <<0, 0, 2>>, <<0, 0, 0>>>>,
          <<<<1, 2>>, <<1, 3>>, <<2, 3>>>>)

\* two layers, two nets between the same gates
BoardLayers ==
    Board(<<2, 2, 2>>, <<<<0, 0, 0>>, <<0, 1, 1>>>>, <<<<1, 2>>, <<1, 2>>>>)

\* a gate walled in by two others: its net can never be routed
BoardWalled ==
    Board(<<1, 2, 3>>, <<<<0, 0, 0>>, <<0, 0, 1>>, <<0, 1, 0>>, <<0, 1, 2>>>>,
          <<<<1, 4>>>>)

\* gates and no net
BoardEmpty == Board(<<1, 2, 2>>, <<<<0, 0, 0>>, <<0, 1, 1>>>>, <<>>)

\* a net to gate 3 on a board of two gates
BoardUnknown ==
    Board(<<1, 2, 2>>, <<<<0, 0, 0>>, <<0, 1, 1>>>>, <<<<1, 2>>, <<1, 3>>>>)

Boards ==
    {BoardCorners, BoardRow, BoardOrder, BoardImprove, BoardLayers, BoardWalled,
     BoardEmpty, BoardUnknown}

Permutation(seq) ==
    {[n \in 1..Len(seq) |-> seq[f[n]]] : f \in Permutations(1..Len(seq))}

SearchIdle ==
    /\ start = <<>>
    /\ goal = <<>>
    /\ open_set = {}
    /\ closed_set = {}
    /\ came_from = EmptyDict
    /\ g_score = EmptyDict
    /\ f_score = <<>>
    /\ s_pc = "idle"
    /\ s_result = False

\* __init__
Init ==
    /\ \E bd \in Boards :
        LET rb == reset_board(bd.dimensions, bd.gates, bd.connections)
        IN  /\ dimensions = bd.dimensions
            /\ gates = bd.gates
            /\ connections = bd.connections
            /\ board = rb.board
            /\ needs_connections = rb.needs_connections
            /\ neighbor_of = rb.neighbor_of
            /\ free_connectors = rb.free_connectors
    /\ OptimizerIdle
    /\ SearchIdle
    /\ PairIdle

Count == Len(completed_wires)

\* every gate number of the net list is a key of the gates dict
KnownGates ==
    \A n \in 1..Len(connections) :
        /\ connections[n][1] \in DOMAIN gates
        /\ connections[n][2] \in DOMAIN gates

\* line 125: connect_gates looks a gate number up that the gates dict does
\* not hold, self.gates[...] at line 109 or 110 raises KeyError
StartKeyError ==
    /\ pc = "constructed"
    /\ ~KnownGates
    /\ pc' = "key_error"
    /\ UNCHANGED <<boardVars, ordering, pos, iter, best_solution, best_kind,
                   best_shared, best_score, completed_previously,
                   completed_wires, histVars, searchVars, pairVars>>

\* mutant: the estimates of line 125 take a connection off the counters of
\* both gates of every connection they find a path for
Start_Reserving ==
    /\ pc = "constructed"
    /\ KnownGates
    /\ ordering' = InitialOrdering(CB, gates, connections)
    /\ needs_connections' =
          [g \in DOMAIN needs_connections |->
              needs_connections[g] -
              Cardinality({n \in 1..Len(connections) :
                  /\ g \in {connections[n][1], connections[n][2]}
                  /\ connect_gates(CB, gates, connections[n]) # <<>>})]
    /\ iter' = 0
    /\ best_solution' = ordering'
    /\ best_kind' = "ordering"
    /\ best_shared' = FALSE
    /\ best_score' = 0
    /\ completed_previously' = 0
    /\ completed_wires' = <<>>
    /\ pc' = "while"
    /\ UNCHANGED <<dimensions, gates, connections, board, neighbor_of,
                   free_connectors, pos, histVars, searchVars, pairVars>>

\* lines 124-139
Start ==
    /\ pc = "constructed"
    /\ KnownGates
    /\ ordering' = InitialOrdering(CB, gates, connections)
    /\ iter' = 0
    /\ best_solution' = ordering'
    /\ best_kind' = "ordering"
    /\ best_shared' = FALSE
    /\ best_score' = 0
    /\ completed_previously' = 0
    /\ completed_wires' = <<>>
    /\ pc' = "while"
    /\ UNCHANGED <<boardVars, pos, histVars, searchVars, pairVars>>

\* lines 177-178: self.board = best_solution
ReturnBest ==
    /\ board' = best_solution
    /\ pc' = "done"
    /\ UNCHANGED <<dimensions, gates, connections, needs_connections,
                   neighbor_of, free_connectors, ordering, pos, iter,
                   best_solution, best_kind, best_shared, best_score,
                   completed_previously, completed_wires, histVars, searchVars, pairVars>>

\* line 141 holds: the for loop of line 143 begins
EnterPass ==
    /\ pc = "while"
    /\ Len(connections) - Count > 0
    /\ pc' = "for"
    /\ pos' = 1
    /\ UNCHANGED <<boardVars, ordering, iter, best_solution, best_kind,
                   best_shared, best_score, completed_previously,
                   completed_wires, histVars, searchVars, pairVars>>

\* line 141 fails: the loop is left and the best solution installed
LeaveLoop ==
    /\ pc = "while"
    /\ ~(Len(connections) - Count > 0)
    /\ ReturnBest

\* lines 143-153 for the next connection of the ordering; set_node writes
\* into the array best_solution names too while the two are one object
RouteNext ==
    /\ pc = "for"
    /\ pos <= Len(ordering)
    /\ LET i == ordering[pos]
           r == RouteConnection(CB, gates, connections, completed_wires, i)
       IN  /\ board' = r.board
           /\ needs_connections' = r.needs_connections
           /\ completed_wires' = r.completed_wires
           /\ best_solution' = IF best_shared THEN r.board ELSE best_solution
           /\ h_paths' = IF r.routed THEN DictSet(h_paths, i, r.path)
                         ELSE h_paths
           /\ h_attempted' = IF r.attempted THEN Append(h_attempted, i)
                             ELSE h_attempted
    /\ pos' = pos + 1
    /\ UNCHANGED <<dimensions, gates, connections, neighbor_of,
                   free_connectors, pc, ordering, iter, best_kind, best_shared,
                   best_score, completed_previously, h_snapshot, h_max_count,
                   h_prev_pass, searchVars, pairVars>>

\* mutant: the comparison of line 155 is missing, every pass is recorded
Snapshot_Always ==
    /\ pc = "for"
    /\ pos > Len(ordering)
    /\ best_score' = Count
    /\ best_solution' = board
    /\ best_kind' = "board"
    /\ best_shared' = TRUE
    /\ h_snapshot' = IF Count > best_score THEN board ELSE h_snapshot
    /\ h_max_count' = IF Count > h_max_count THEN Count ELSE h_max_count
    /\ pc' = "converged"
    /\ UNCHANGED <<boardVars, ordering, pos, iter, completed_previously,
                   completed_wires, h_paths, h_attempted, h_prev_pass,
                   searchVars, pairVars>>

\* lines 155-158 at the end of the for loop
Snapshot ==
    /\ pc = "for"
    /\ pos > Len(ordering)
    /\ IF Count > best_score
       THEN /\ best_score' = Count
            /\ best_solution' = board
            /\ best_kind' = "board"
            /\ best_shared' = TRUE
            /\ h_snapshot' = board
       ELSE UNCHANGED <<best_score, best_solution, best_kind, best_shared,
                        h_snapshot>>
    /\ h_max_count' = IF Count > h_max_count THEN Count ELSE h_max_count
    /\ pc' = "converged"
    /\ UNCHANGED <<boardVars, ordering, pos, iter, completed_previously,
                   completed_wires, h_paths, h_attempted, h_prev_pass,
                   searchVars, pairVars>>

\* line 161 fails; line 174
Progressed ==
    /\ pc = "converged"
    /\ Count # completed_previously
    /\ completed_previously' = Count
    /\ h_attempted' = <<>>
    /\ h_prev_pass' = Count
    /\ pc' = "while"
    /\ UNCHANGED <<boardVars, ordering, pos, iter, best_solution, best_kind,
                   best_shared, best_score, completed_wires, h_paths,
                   h_snapshot, h_max_count, searchVars, pairVars>>

\* lines 161-164: break, then lines 177-178
Break ==
    /\ pc = "converged"
    /\ Count = completed_previously
    /\ iter = max_iters
    /\ ReturnBest

\* mutant: line 174 records the count before the deletions of lines 168-170
Perturb_KeepPrevious ==
    /\ pc = "converged"
    /\ Count = completed_previously
    /\ iter # max_iters
    /\ Count >= v_opt
    /\ \E to_delete \in Samples(completed_wires, v_opt) :
        LET d == DeleteAll(board, needs_connections, connections,
                           completed_wires, to_delete, 1)
        IN  /\ board' = d.board
            /\ needs_connections' = d.needs_connections
            /\ completed_wires' = d.completed_wires
            /\ completed_previously' = Count
            /\ h_paths' = [k \in (DOMAIN h_paths) \ SeqRange(to_delete)
                              |-> h_paths[k]]
    /\ best_solution' = Rebound(best_shared, best_solution, board').best_solution
    /\ best_shared' = Rebound(best_shared, best_solution, board').best_shared
    /\ ordering' \in Permutation(ordering)
    /\ iter' = iter + 1
    /\ h_attempted' = <<>>
    /\ h_prev_pass' = Count
    /\ pc' = "while"
    /\ UNCHANGED <<dimensions, gates, connections, neighbor_of,
                   free_connectors, pos, best_kind, best_score, h_snapshot,
                   h_max_count, searchVars, pairVars>>

\* lines 167-174: v_opt routed connections are deleted, the ordering is
\* shuffled
Perturb ==
    /\ pc = "converged"
    /\ Count = completed_previously
    /\ iter # max_iters
    /\ Count >= v_opt
    /\ \E to_delete \in Samples(completed_wires, v_opt) :
        LET d == DeleteAll(board, needs_connections, connections,
                           completed_wires, to_delete, 1)
        IN  /\ board' = d.board
            /\ needs_connections' = d.needs_connections
            /\ completed_wires' = d.completed_wires
            /\ completed_previously' = Len(d.completed_wires)
            /\ h_paths' = [k \in (DOMAIN h_paths) \ SeqRange(to_delete)
                              |-> h_paths[k]]
    /\ best_solution' = Rebound(best_shared, best_solution, board').best_solution
    /\ best_shared' = Rebound(best_shared, best_solution, board').best_shared
    /\ ordering' \in Permutation(ordering)
    /\ iter' = iter + 1
    /\ h_attempted' = <<>>
    /\ h_prev_pass' = Count
    /\ pc' = "while"
    /\ UNCHANGED <<dimensions, gates, connections, neighbor_of,
                   free_connectors, pos, best_kind, best_score, h_snapshot,
                   h_max_count, searchVars, pairVars>>

\* line 167: random.sample raises ValueError when fewer than v_opt
\* connections are routed
SampleError ==
    /\ pc = "converged"
    /\ Count = completed_previously
    /\ iter # max_iters
    /\ Count < v_opt
    /\ pc' = "error"
    /\ UNCHANGED <<boardVars, ordering, pos, iter, best_solution, best_kind,
                   best_shared, best_score, completed_previously,
                   completed_wires, histVars, searchVars, pairVars>>

Next ==
    \/ Start
    \/ StartKeyError
    \/ EnterPass
    \/ LeaveLoop
    \/ RouteNext
    \/ Snapshot
    \/ Progressed
    \/ Break
    \/ Perturb
    \/ SampleError

Spec == Init /\ [][Next]_vars

-----------------------------------------------------------------------------
(* The pair-router specification: one call of connect_gates on a freshly    *)
(* constructed board, as line 125 makes for every connection.               *)

InitPair ==
    /\ \E dim \in SearchDimensions :
        \E S \in SUBSET Cells(dim) :
          /\ Cardinality(S) >= 2
          /\ Cardinality(S) <= MaxGates
          /\ \E a, b \in DOMAIN GatesAt(S) :
              /\ a # b
              /\ LET rb == reset_board(dim, GatesAt(S), <<<<a, b>>>>)
                 IN  /\ dimensions = dim
                     /\ gates = GatesAt(S)
                     /\ connections = <<<<a, b>>>>
                     /\ board = rb.board
                     /\ needs_connections = rb.needs_connections
                     /\ neighbor_of = rb.neighbor_of
                     /\ free_connectors = rb.free_connectors
                     /\ pair = <<a, b>>
    /\ best = <<>>
    /\ c_pc = "called"
    /\ OptimizerIdle
    /\ SearchIdle

\* connect_gates, lines 108-119
ConnectGates ==
    /\ c_pc = "called"
    /\ best' = connect_gates(CB, gates, pair)
    /\ c_pc' = "returned"
    /\ UNCHANGED <<boardVars, optVars, histVars, searchVars, pair>>

NextPair == ConnectGates

SpecPair == InitPair /\ [][NextPair]_vars

\* the combinations of a start neighbor and an end neighbor search succeeds on
Combinations ==
    LET n1 == node_neighbors(CB, gates[pair[1]])
        n2 == node_neighbors(CB, gates[pair[2]])
    IN  {c \in (1..Len(n1)) \X (1..Len(n2)) :
            search(n1[c[1]], n2[c[2]], CB).kind = "path"}

CombinationPath(c) ==
    search(node_neighbors(CB, gates[pair[1]])[c[1]],
           node_neighbors(CB, gates[pair[2]])[c[2]], CB).path

Earlier(c, d) == c[1] < d[1] \/ (c[1] = d[1] /\ c[2] <= d[2])

ShortestCombinations ==
    {c \in Combinations :
        \A d \in Combinations : Len(CombinationPath(c)) <= Len(CombinationPath(d))}

\* C5: connect_gates returns the path of the first combination, start
\* neighbors outside and end neighbors inside, among those of least length,
\* and the empty list exactly when search succeeds on no combination.
C5_FirstShortestCombination ==
    c_pc = "returned" =>
        /\ best = <<>> <=> Combinations = {}
        /\ Combinations # {} =>
              \E c \in ShortestCombinations :
                  /\ \A d \in ShortestCombinations : Earlier(c, d)
                  /\ best = CombinationPath(c)

C5_Witness ==
    /\ c_pc = "returned"
    /\ Len(best) >= 2
    /\ \E c, d \in ShortestCombinations : CombinationPath(c) # CombinationPath(d)
    /\ \E c \in Combinations : c \notin ShortestCombinations

-----------------------------------------------------------------------------
(* Properties of the router.                                                *)

\* self.board is the grid (after the return it is whatever best_solution was)
BoardIsGrid == pc # "done" \/ best_kind = "board"

NetIndexes == 0..(Len(connections) - 1)
Routed == SeqRange(completed_wires)
EndPoints(i) == {connections[i + 1][1], connections[i + 1][2]}

\* every gate registered for the connector still needs a connection
AllNeighboursPending(c) ==
    \A k \in 1..Len(neighbor_of[c]) :
        /\ neighbor_of[c][k] \in DOMAIN needs_connections
        /\ needs_connections[neighbor_of[c][k]] >= 1

\* C4: node_neighbors never returns a registered connector all of whose
\* neighbouring gates still have a connection remaining.
C4_ConnectorRule ==
    BoardIsGrid =>
        \A node \in Cells(dimensions) :
            \A c \in SeqRange(node_neighbors(CB, node)) :
                c \in DOMAIN neighbor_of => ~AllNeighboursPending(c)

\* C6: for an unrouted net that connect_gates can route, painting its path
\* and decrementing both counters, then delete_connection, gives back the
\* grid and the counters.
C6_UndoInvertsPaint ==
    pc \in {"while", "for", "converged"} =>
        \A i \in NetIndexes \ Routed :
            LET r == RouteConnection(CB, gates, connections, completed_wires, i)
                d == delete_connection(r.board, r.needs_connections,
                                       connections, i, wire_names(i))
            IN  r.routed =>
                    /\ d.board = board
                    /\ d.needs_connections = needs_connections

C6_Witness ==
    /\ pc = "for"
    /\ completed_wires # <<>>
    /\ \E i \in NetIndexes \ Routed :
        LET r == RouteConnection(CB, gates, connections, completed_wires, i)
        IN  r.routed /\ Len(r.path) >= 2

Degree(g) == Cardinality({i \in NetIndexes : g \in EndPoints(i)})
RoutedDegree(g) == Cardinality({i \in Routed : g \in EndPoints(i)})

\* C7: after every routing pass and every perturbation, each gate's counter
\* is its number of nets less its number of routed nets, and is not negative.
C7_CountersMatch ==
    pc \in {"while", "converged", "done", "error"} =>
        /\ DOMAIN needs_connections = {g \in DOMAIN gates : Degree(g) > 0}
        /\ \A g \in DOMAIN needs_connections :
              /\ needs_connections[g] = Degree(g) - RoutedDegree(g)
              /\ needs_connections[g] >= 0

C7_Witness ==
    /\ pc = "converged"
    /\ iter >= 1
    /\ Count >= 1
    /\ Count < Len(connections)
    /\ \E g \in DOMAIN needs_connections : needs_connections[g] = 0

Adjacent(a, b) == Distance3D(a, b) = 1

\* the label numpy holds for net i
Label(i) == U2(wire_names(i))

GridWellFormed ==
    /\ \A g \in DOMAIN gates : board[gates[g]] = GateLabel
    /\ \A c \in Cells(dimensions) :
          \/ board[c] = EmptyLabel
          \/ \E g \in DOMAIN gates : gates[g] = c /\ board[c] = GateLabel
          \/ \E i \in Routed :
                /\ board[c] = Label(i)
                /\ c \in SeqRange(h_paths[i])
    /\ DOMAIN h_paths = Routed
    /\ \A i \in Routed :
          LET p == h_paths[i] IN
          /\ p # <<>>
          /\ Contiguous(p)
          /\ Adjacent(p[1], gates[connections[i + 1][2]])
          /\ Adjacent(p[Len(p)], gates[connections[i + 1][1]])
          /\ \A k \in 1..Len(p) : board[p[k]] = Label(i)
    /\ \A i, j \in Routed : i # j => Label(i) # Label(j)

\* a step that paints changes Empty cells only
PaintsEmptyOnly ==
    pc = "for" =>
        \A c \in Cells(dimensions) :
            board'[c] # board[c] => board[c] = EmptyLabel

\* C8: after every routing pass and every perturbation each gate cell is
\* labelled GA, a cell carries the label of net i only if i is routed and
\* the cell is on the path painted for i, each routed net's cells form a
\* contiguous path from beside one of its gates to beside the other, and
\* paint overwrote Empty cells only.
C8_GridWellFormed ==
    /\ [](pc \in {"while", "for", "converged", "error"} => GridWellFormed)
    /\ [][PaintsEmptyOnly]_vars

C8_Witness ==
    /\ pc = "converged"
    /\ iter >= 1
    /\ Count >= 2
    /\ \E i \in Routed : Len(h_paths[i]) >= 2

\* C9: best_score never decreases, after the snapshot step it is at least
\* the routed count of the pass, and at the return it is at least the routed
\* count of every pass.
C9_BestMonotonic ==
    /\ [][best_score' >= best_score]_vars
    /\ [](pc = "converged" => best_score >= Count)
    /\ [](pc \in {"converged", "done"} => best_score >= h_max_count)

C9_Witness ==
    /\ pc = "converged"
    /\ Count < best_score
    /\ Count >= 1

NetsOn(b) == {b[c] : c \in DOMAIN b} \ {EmptyLabel, GateLabel}

\* C10: when complete_board returns after at least one pass, the board it
\* installs is the grid as it stood at the end of the pass that last raised
\* best_score, and the number of nets labelled on it is best_score; between
\* passes the recorded snapshot is that grid too, whatever was painted or
\* undone since.
C10_SnapshotInstalled ==
    /\ pc = "done" /\ Len(connections) > 0 =>
          /\ best_kind = "board"
          /\ board = h_snapshot
          /\ Cardinality(NetsOn(board)) = best_score
          /\ \A l \in NetsOn(board) : \E i \in NetIndexes : l = Label(i)
    /\ pc \in {"while", "converged", "error"} /\ best_kind = "board" =>
          best_solution = h_snapshot

C10_Witness ==
    /\ pc = "done"
    /\ iter = max_iters
    /\ Count < best_score

-----------------------------------------------------------------------------
(* Termination of complete_board.                                           *)

\* C11: complete_board never stops in an error state, it returns only when
\* every connection is routed or the iteration counter is at the cap, and it
\* does not report the full count while a connection is unrouted.
C11_ReturnsNormally ==
    /\ pc # "error"
    /\ pc = "done" => Count = Len(connections) \/ iter = max_iters
    /\ pc = "done" /\ Count < Len(connections) =>
          best_score < Len(connections)

\* the board of two gates at opposite corners of one 2 x 2 layer
IsCorners ==
    /\ dimensions = BoardCorners.dimensions
    /\ gates = BoardCorners.gates
    /\ connections = BoardCorners.connections

\* the cells labelled with the wire name of connection i
Wire(i) == {c \in DOMAIN board : board[c] = Label(i)}

CornersResult ==
    /\ best_score = 1
    /\ Count = 1
    /\ best_kind = "board"
    /\ DOMAIN board = Cells(dimensions)
    /\ Label(0) = <<"0", "1">>
    /\ Wire(0) = SeqRange(h_paths[0])
    /\ Wire(0) # {}
    /\ \A g \in DOMAIN gates : board[gates[g]] = GateLabel
    /\ \A c \in Cells(dimensions) :
          c \notin Wire(0) /\ (\A g \in DOMAIN gates : gates[g] # c) =>
              board[c] = EmptyLabel

\* the number of steps complete_board has left at most, when no pass
\* stagnates
StepsLeft ==
    CASE pc = "constructed" -> 6 + Len(connections)
      [] pc = "while" -> IF Count < Len(connections)
                         THEN 5 + Len(connections) ELSE 1
      [] pc = "for" -> 4 + Len(ordering) - pos
      [] pc = "converged" -> 2
      [] OTHER -> 0

\* C12: on the (1,2,2) grid with two gates at opposite corners and one
\* connection between them, complete_board returns, with one connection
\* routed, the cells of its path labelled '01', both gate cells labelled GA
\* and every other cell Empty.  It returns: it is never in an error state
\* (the only positions besides the return that have no next step), and every
\* step brings the return nearer.
C12_CornersRouted ==
    /\ [](IsCorners /\ pc = "done" => CornersResult)
    /\ [](IsCorners => pc \notin {"error", "key_error"} /\ StepsLeft >= 0)
    /\ [][IsCorners => StepsLeft' < StepsLeft]_vars

C12_Witness ==
    /\ IsCorners
    /\ pc = "done"
    /\ iter = 0
    /\ board[<<0, 1, 0>>] = <<"0", "1">>
    /\ board[<<0, 0, 1>>] = EmptyLabel

-----------------------------------------------------------------------------
(* Construction.                                                            *)

\* C13: a board whose connection list names a gate that the gates dict does
\* not hold is not constructed: every constructed board's connections name
\* registered gates only, and no call of connect_gates meets an unknown gate.
C13_UnknownGateRejected ==
    /\ pc = "constructed" => KnownGates
    /\ pc # "key_error"

-----------------------------------------------------------------------------
(* What the pathfinder and the pair router leave alone.                     *)

\* the number of ends of connection i at gate g
Ends(i, g) ==
    (IF connections[i + 1][1] = g THEN 1 ELSE 0)
    + (IF connections[i + 1][2] = g THEN 1 ELSE 0)

\* the step changed nothing but the cells of the path returned for
\* connection i, the counters of its two gates and its place in the routed
\* list
PaintOnly(i) ==
    /\ completed_wires' = Append(completed_wires, i)
    /\ \A c \in Cells(dimensions) :
          board'[c] # board[c] =>
              /\ c \in SeqRange(h_paths'[i])
              /\ board[c] = EmptyLabel
              /\ board'[c] = Label(i)
    /\ DOMAIN needs_connections' = DOMAIN needs_connections
    /\ \A g \in DOMAIN needs_connections :
          needs_connections'[g] = needs_connections[g] - Ends(i, g)

GridState == <<board, needs_connections, completed_wires>>

-----------------------------------------------------------------------------
(* The connector mapping.                                                   *)

\* the gates of gs beside the cell c
GatesBeside(gs, c) == {g \in DOMAIN gs : Adjacent(c, gs[g])}

\* nbof maps the cells of the grid that hold no gate and lie beside a gate,
\* each to the gates beside it, every gate once
IsConnectorMap(nbof, dim, gs) ==
    /\ DOMAIN nbof =
          {c \in Cells(dim) : /\ \A g \in DOMAIN gs : gs[g] # c
                              /\ GatesBeside(gs, c) # {}}
    /\ \A c \in DOMAIN nbof :
          /\ SeqRange(nbof[c]) = GatesBeside(gs, c)
          /\ Len(nbof[c]) = Cardinality(GatesBeside(gs, c))

\* C15: neighbor_of maps exactly the in-bounds cells without a gate that
\* are 6-adjacent to a gate, each to exactly the gates beside it, each gate
\* once: after construction, for every gate placement, and in every state of
\* complete_board whatever is painted or cleared.
C15_NeighborOfStatic ==
    /\ IsConnectorMap(neighbor_of, dimensions, gates)
    /\ pc = "constructed" =>
          \A dim \in SearchDimensions :
              \A S \in SUBSET Cells(dim) :
                  Cardinality(S) <= MaxGates =>
                      IsConnectorMap(
                          reset_board(dim, GatesAt(S), <<>>).neighbor_of,
                          dim, GatesAt(S))

C15_Witness ==
    /\ pc = "converged"
    /\ iter >= 1
    /\ \E c \in DOMAIN neighbor_of :
          /\ Len(neighbor_of[c]) >= 2
          /\ board[c] \notin {EmptyLabel, GateLabel}
    /\ \E c \in DOMAIN neighbor_of : board[c] = EmptyLabel

-----------------------------------------------------------------------------
(* The neighbours node_neighbors returns.                                   *)

\* the connector-contention rule forbids crossing c: it is a registered
\* connector and every gate beside it still needs a connection
Disallowed(c) == c \in DOMAIN neighbor_of /\ AllNeighboursPending(c)

\* C16: for every node of the grid, every cell node_neighbors returns is on
\* the grid, one unit away from the node on one axis and Empty, no cell is
\* returned twice, and every Empty cell beside the node that the
\* connector-contention rule does not disallow is returned.
C16_VacantNeighbours ==
    BoardIsGrid =>
        \A node \in Cells(dimensions) :
            LET nb == node_neighbors(CB, node)
            IN  /\ \A k \in 1..Len(nb) :
                      /\ nb[k] \in Cells(dimensions)
                      /\ Distance3D(node, nb[k]) = 1
                      /\ board[nb[k]] = EmptyLabel
                /\ NoRepeat(nb)
                /\ \A c \in Cells(dimensions) :
                      /\ Adjacent(node, c)
                      /\ board[c] = EmptyLabel
                      /\ ~Disallowed(c)
                      => c \in SeqRange(nb)

C16_Witness ==
    /\ pc = "for"
    /\ \E node \in Cells(dimensions) :
          /\ Len(node_neighbors(CB, node)) >= 2
          /\ \E c \in Cells(dimensions) :
                /\ Adjacent(node, c)
                /\ board[c] \notin {EmptyLabel, GateLabel}
          /\ \E c \in SeqRange(node_neighbors(CB, node)) : ~Disallowed(c)

-----------------------------------------------------------------------------
(* The perturbation.                                                        *)

\* the number of ends the connections of the set undone have at gate g
EndsAt(undone, g) ==
    Cardinality({e \in undone \X {1, 2} : connections[e[1] + 1][e[2]] = g})

\* from grid b, counters needs and routed list done, the connections of
\* undone were undone and nothing else was changed
UndoEffect(b, needs, done, undone, b2, needs2, done2) ==
    /\ Cardinality(undone) = v_opt
    /\ undone \subseteq SeqRange(done)
    /\ DOMAIN b2 = DOMAIN b
    /\ \A c \in DOMAIN b :
          b2[c] = IF \E i \in undone : b[c] = Label(i) THEN EmptyLabel
                  ELSE b[c]
    /\ \A i \in undone : \A c \in DOMAIN b2 : b2[c] # Label(i)
    /\ DOMAIN needs2 = DOMAIN needs
    /\ \A g \in DOMAIN needs : needs2[g] = needs[g] + EndsAt(undone, g)
    /\ SeqRange(done2) = SeqRange(done) \ undone
    /\ Len(done2) = Len(done) - v_opt

\* a step of lines 167-173
PerturbStep == pc = "converged" /\ iter' # iter

\* C17: a perturbation undoes exactly v_opt = 2 distinct routed
\* connections: no cell keeps their labels, the counters of their gates go
\* up by one per undone end, both indices leave completed_wires, every other
\* cell, counter and routed connection stays, the ordering is a permutation
\* of all connection indices, and iter goes up by one and stays within the
\* cap.  The same holds of lines 168-170 applied to any two routed
\* connections of any grid a pass leaves.
C17_PerturbUndoesTwo ==
    /\ [][PerturbStep =>
            /\ UndoEffect(board, needs_connections, completed_wires,
                          Routed \ SeqRange(completed_wires'),
                          board', needs_connections', completed_wires')
            /\ \A j \in SeqRange(completed_wires') : h_paths'[j] = h_paths[j]
            /\ Len(ordering') = Len(connections)
            /\ SeqRange(ordering') = NetIndexes
            /\ iter' = iter + 1
            /\ iter' <= max_iters]_vars
    /\ [](pc \in {"while", "for", "converged"} /\ Count >= v_opt =>
            \A to_delete \in Samples(completed_wires, v_opt) :
                LET d == DeleteAll(board, needs_connections, connections,
                                   completed_wires, to_delete, 1)
                IN  UndoEffect(board, needs_connections, completed_wires,
                               SeqRange(to_delete), d.board,
                               d.needs_connections, d.completed_wires))

C17_Witness ==
    /\ pc = "while"
    /\ iter >= 2
    /\ h_attempted = <<>>
    /\ h_prev_pass = Count + v_opt
    /\ \E g \in DOMAIN needs_connections : needs_connections[g] >= 2
    /\ \A c \in Cells(dimensions) : board[c] \in {EmptyLabel, GateLabel}

-----------------------------------------------------------------------------
(* The stagnation check.                                                    *)

\* the connections the current pass routed
NewlyRouted == SeqRange(h_attempted) \cap Routed

\* the step treats the pass as a local optimum: the return at the cap, else
\* the perturbation, which begins with random.sample
LocalOptimumStep ==
    IF iter = max_iters THEN pc' = "done"
    ELSE \/ pc' = "while" /\ iter' = iter + 1
         \/ pc' = "error"

\* a further routing pass follows, nothing is undone
FurtherPassStep ==
    /\ pc' = "while"
    /\ iter' = iter
    /\ GridState' = GridState
    /\ completed_previously' = Count

\* C18 as claimed: a pass that ends with a routed count not greater than the
\* count at the end of the previous pass, with a connection still unrouted,
\* is treated as a local optimum in the same iteration.
C18_StagnationAgainstPreviousPass ==
    [][/\ pc = "converged"
       /\ h_prev_pass >= 0
       /\ Count <= h_prev_pass
       /\ Count < Len(connections)
       => LocalOptimumStep]_vars

\* C18 as amended: the pass is treated as a local optimum exactly when it
\* routed no connection, that is when its count equals the count it began
\* with (completed_previously, which after a perturbation is the count the
\* perturbation left); a pass that routed a connection is followed by a
\* further pass, whatever the count at the end of the previous pass was.
C18_StagnationAgainstPassStart ==
    /\ [](pc \in {"for", "converged"} =>
            completed_previously = Count - Cardinality(NewlyRouted))
    /\ [][pc = "converged" /\ Count < Len(connections) =>
            IF NewlyRouted = {} THEN LocalOptimumStep
            ELSE FurtherPassStep]_vars

C18_Witness ==
    /\ pc = "converged"
    /\ iter >= 1
    /\ Count <= h_prev_pass
    /\ Count < Len(connections)
    /\ NewlyRouted # {}

-----------------------------------------------------------------------------
(* The routing pass.                                                        *)

\* the connections whose turn has come in the current pass
Turned == {ordering[k] : k \in 1..(pos - 1)}

\* the number of calls of connect_gates for connection i in the current pass
Attempts(i) == Cardinality({k \in 1..Len(h_attempted) : h_attempted[k] = i})

\* C19: in every pass the ordering is a permutation of all connection
\* indices; a connection that is unrouted when its turn comes is attempted
\* with connect_gates, once, and one that is routed is neither attempted nor
\* painted again; so at the end of every pass each connection still unrouted
\* was attempted in that pass.
C19_PassAttemptsEachOnce ==
    /\ [](pc \in {"while", "for", "converged"} =>
            /\ Len(ordering) = Len(connections)
            /\ SeqRange(ordering) = NetIndexes
            /\ NoRepeat(completed_wires))
    /\ [](pc \in {"for", "converged"} =>
            /\ SeqRange(h_attempted) \subseteq Turned
            /\ \A i \in Turned : Attempts(i) <= 1
            /\ \A i \in Turned \ Routed : Attempts(i) = 1)
    /\ [](pc = "converged" =>
            /\ Turned = NetIndexes
            /\ \A i \in NetIndexes \ Routed : Attempts(i) = 1)
    /\ [][pc = "for" /\ pos <= Len(ordering) =>
            IF ordering[pos] \in Routed
            THEN /\ GridState' = GridState
                 /\ h_attempted' = h_attempted
                 /\ h_paths' = h_paths
            ELSE h_attempted' = Append(h_attempted, ordering[pos])]_vars

C19_Witness ==
    /\ pc = "converged"
    /\ iter >= 1
    /\ \E i \in Routed : Attempts(i) = 0
    /\ \E i \in NetIndexes \ Routed : Attempts(i) = 1

-----------------------------------------------------------------------------
(* The board complete_board leaves.                                         *)

\* C20: when complete_board returns, self.board is a grid of the dimensions
\* given at construction in which every gate cell is labelled GA and every
\* other cell is Empty or the two-character zero-padded 1-based label of a
\* connection index.
C20_ReturnsGrid ==
    pc = "done" =>
        /\ best_kind = "board"
        /\ DOMAIN board = Cells(dimensions)
        /\ \A c \in Cells(dimensions) :
              IF \E g \in DOMAIN gates : gates[g] = c
              THEN board[c] = GateLabel
              ELSE \/ board[c] = EmptyLabel
                   \/ \E i \in NetIndexes :
                         /\ board[c] = Format02d(i + 1)
                         /\ Len(board[c]) = 2

=============================================================================
